---- MODULE Spec2Model ----
(***************************************************************************)
(* State-machine model of the out-of-core engine (src/src/engine.cpp):     *)
(*   - IOThread: request queue, ready queue, worker loop, Stop             *)
(*   - LruCache: payload table, recency list, byte counter                 *)
(* Variables that do not exist in the code (logs and counters that only    *)
(* record what happened) are marked "ghost".                               *)
(***************************************************************************)
EXTENDS Integers, Sequences, FiniteSets, TLC

\* ------------------------------------------------------------------ bounds
\* Total number of Enqueue calls explored.
MaxEnq == 2
\* Total number of Stop calls explored (the destructor's call included).
MaxStops == 2
\* Longest payload (number of float elements) explored.
MaxLen == 2
\* Largest cache budget (bytes) explored.
MaxBudget == 8
\* Largest pool (number of pages) explored.
MaxPages == 3
\* Largest page (elements per page) explored.
MaxPageSize == 2
MaxRacePages == 2
MaxRaceCalls == 4
\* Largest tile dimension, and number of engine calls (RegisterBlock,
\* QueuePrefetch, TryConsume) explored.
MaxDim == 2
MaxEngineCalls == 5
\* Largest dimension and alignment given to AlignChunkToTile.
MaxTile == 3
MaxGlobal == 3

\* -------------------------------------------------------- program constants
SizeofDouble == 8
Rank == 3
\* sizeof(float)
SizeofFloat == 4

\* ------------------------------------------------------------ input domains
Keys == {"k1", "k2", "k3"}
PipelineKeys == {"k1", "k2"}
Floats == {0, 1}
Callers == {"t1", "t2"}

\* All float vectors of length 0..MaxLen.
Payloads == UNION {[1..n -> Floats] : n \in 0..MaxLen}

\* BlockDescriptor values carried by the pipeline's requests.
BlockDescriptor == {[tile_shape |-> <<1>>, chunk_shape |-> <<1>>, bytes |-> SizeofFloat]}

\* PrefetchRequest{key, descriptor}
PrefetchRequest == [key : PipelineKeys, descriptor : BlockDescriptor]

\* What an injected fetch callback may return for a request: an empty
\* payload (failure) or a payload with data.
FetchResults == {<<>>, <<0>>}

NoRequest == [key |-> "", descriptor |-> <<>>]
NoData == <<>>

VARIABLES
  \* ---- IOThread
  queue_,      \* std::deque<PrefetchRequest>
  ready_,      \* std::deque<CacheEntry>
  stop_,       \* std::atomic<bool>
  mutex_,      \* "free" or "worker" (caller critical sections are atomic steps)
  joinable,    \* worker_.joinable()
  wpc,         \* position of the worker thread in WorkerLoop
  request,     \* WorkerLoop local: the dequeued request
  data,        \* WorkerLoop local: the callback's result
  cpc,         \* position of each caller thread
  dtor,        \* "no", "running" or "done": ~IOThread
  \* ---- ghost history of the pipeline
  enqLog,      \* requests in the order Enqueue appended them
  fetchLog,    \* requests in the order the callback was invoked on them
  doneLog,     \* keys in the order their callback invocation returned
  readyLog,    \* entries in the order the worker pushed them on ready_
  delivered,   \* entries in the order PopReady returned them
  stopCalls,   \* number of Stop calls begun
  flips,       \* number of false -> true changes of stop_
  joins,       \* number of completed worker_.join() calls
  deqAtStop,   \* number of requests dequeued when stop_ was set (-1: not set)
  enqAtStop,   \* number of requests enqueued when stop_ was set (-1: not set)
  \* ---- LruCache
  max_bytes_,
  current_bytes_,
  lru_,        \* std::list<std::string>, most recent first
  entries_,    \* key -> payload, a function on the resident keys
  \* ---- ghost history of the cache
  recency,     \* keys by last access (Get hit or Put), most recent first
  lastOp,      \* the last cache call and its result
  preEvict,    \* recency right before the last Put began to evict
  evicted      \* keys the last Put evicted, in eviction order

ioVars == <<queue_, ready_, stop_, mutex_, joinable, wpc, request, data>>
callVars == <<cpc, dtor>>
ioGhost == <<enqLog, fetchLog, doneLog, readyLog, delivered, stopCalls, flips,
             joins, deqAtStop, enqAtStop>>
cacheVars == <<max_bytes_, current_bytes_, lru_, entries_>>
cacheGhost == <<recency, lastOp, preEvict, evicted>>

VARIABLES
  \* ---- BufferPool (src/src/memory.c)
  num_pages,
  page_size,
  free_stack,  \* int array, a function on 0..num_pages-1
  top,
  \* ---- a single caller of the pool
  out_id,      \* the int the caller passes the address of
  pool_ret,    \* the page pointer the last pool call returned
  \* ---- ghost history of the pool
  poolOp,      \* the last pool call and its result
  held,        \* ids returned by pool_acquire and not released since
  fresh,       \* no pool_release has been called yet
  acq,         \* ids returned by the acquires of a pool never released to, in order
  \* ---- threads calling the pool concurrently
  ppc,         \* position of each thread inside pool_acquire / pool_release
  ploc,        \* each thread's register: the value of top it loaded
  pid,         \* each thread's page_id argument of pool_release
  theld,       \* per thread: ids it acquired and has not released
  pcalls       \* ghost: pool calls begun by the threads

poolVars == <<num_pages, page_size, free_stack, top>>
poolCaller == <<out_id, pool_ret>>
poolGhost == <<poolOp, held, fresh, acq>>
poolThreads == <<ppc, ploc, pid, theld, pcalls>>
allPool == <<poolVars, poolCaller, poolGhost, poolThreads>>

VARIABLES
  \* ---- OutcoreEngine (cache_ and io_thread_ are the variables above)
  metadata_,   \* MetadataRegistry::entries_, a function on the registered keys
  write_index_,\* DoubleBuffer::write_index_
  epc,         \* position of each caller thread inside an engine method
  emeta,       \* QueuePrefetch local: the key and what Lookup returned
  eready,      \* TryConsume local: the entry PopReady returned
  eidx,        \* Swap: the value of write_index_ the thread loaded
  \* ---- ghost history of the engine
  ecalls,      \* number of engine calls begun
  everNonZero, \* keys ever registered with is_zero = false
  lastRegistered, \* key -> the metadata of the last RegisterBlock call for it
  engOp        \* the last engine call that returned, and its result

engineVars == <<metadata_, write_index_>>
engineLocals == <<epc, emeta, eready, eidx>>
engineGhost == <<ecalls, everNonZero, lastRegistered, engOp>>
allEngine == <<engineVars, engineLocals, engineGhost>>

VARIABLES
  \* ---- a call of OutcoreEngine::AlignChunkToTile
  al_tile,     \* argument tile_shape
  al_align,    \* argument chunk_alignment
  al_elem,     \* argument element_bytes
  al_out       \* what the call returned (NotCalled before the call)

alignVars == <<al_tile, al_align, al_elem, al_out>>
allPure == <<alignVars>>

VARIABLES
  \* ---- ghost history of IOThread::WaitReady
  waitRes      \* per caller: the result of its last WaitReady call, and
               \* whether stop_ was set when the call began

waitVars == <<waitRes>>

VARIABLES
  \* ---- TensorRegistry (registry.c)
  reg,         \* the registry object, or NoRegistry before registry_create
  regOp        \* ghost: the last registry call, its arguments and its result

regVars == <<reg, regOp>>

\* What the pipeline's steps leave alone, and what the cache's steps do.
frameIO == <<cacheVars, cacheGhost, allPool, allPure, waitVars, regVars, allEngine>>
frameCache == <<ioVars, callVars, ioGhost, allPool, allPure, waitVars, regVars, allEngine>>

vars == <<ioVars, callVars, ioGhost, cacheVars, cacheGhost, allPool, allPure, waitVars, regVars, allEngine>>

\* ------------------------------------------------------------ std helpers
\* Mutant of push_back: the element is put at the front.
push_back_AtFront(q, x) == <<x>> \o q

\* std::deque::push_back
push_back(q, x) == Append(q, x)

\* Mutant of front: the entry at the back is returned.
front_Back(q) == q[Len(q)]

\* std::deque::front
front(q) == Head(q)

\* Mutant of pop_front: the whole queue is dropped.
pop_front_Clear(q) == <<>>

\* std::deque::pop_front
pop_front(q) == Tail(q)

\* The predicate the worker waits on: stop_.load() || !queue_.empty()
WaitPredicate == stop_ \/ queue_ # <<>>

\* cv_.notify_one() / cv_.notify_all(): the worker is the only thread that
\* ever waits on cv_; a notification with no waiter is lost.
Notified(pc) == IF pc = "waiting" THEN "lock" ELSE pc

\* ================================================================ IOThread
\* State after IOThread::IOThread: the worker thread is started and is about
\* to evaluate the loop condition; nothing is queued; stop_ is false.
IOInit ==
  /\ queue_ = <<>>
  /\ ready_ = <<>>
  /\ stop_ = FALSE
  /\ mutex_ = "free"
  /\ joinable = TRUE
  /\ wpc = "loop"
  /\ request = NoRequest
  /\ data = NoData
  /\ cpc = [c \in Callers |-> "idle"]
  /\ dtor = "no"
  /\ enqLog = <<>>
  /\ fetchLog = <<>>
  /\ doneLog = <<>>
  /\ readyLog = <<>>
  /\ delivered = <<>>
  /\ stopCalls = 0
  /\ flips = 0
  /\ joins = 0
  /\ deqAtStop = -1
  /\ enqAtStop = -1

\* The object may be used: its destructor has not begun.
Alive == dtor = "no"

\* ------------------------------------------------------------- WorkerLoop
\* while (!stop_.load())
WorkerLoopTest ==
  /\ wpc = "loop"
  /\ wpc' = IF stop_ THEN "exited" ELSE "lock"
  /\ UNCHANGED <<queue_, ready_, stop_, mutex_, joinable, request, data>>
  /\ UNCHANGED <<callVars, ioGhost>>

\* unique_lock lock(mutex_); cv_.wait(lock, pred): take the mutex (first
\* entry, or re-acquisition after a wakeup) and evaluate the predicate.
\* A false predicate leads to the blocking wait, still holding the mutex.
WorkerLockAndTest ==
  /\ wpc = "lock"
  /\ mutex_ = "free"
  /\ mutex_' = "worker"
  /\ wpc' = IF WaitPredicate THEN "check" ELSE "block"
  /\ UNCHANGED <<queue_, ready_, stop_, joinable, request, data>>
  /\ UNCHANGED <<callVars, ioGhost>>

\* cv_.wait(lock): atomically release the mutex and block on cv_.
WorkerBlock ==
  /\ wpc = "block"
  /\ mutex_' = "free"
  /\ wpc' = "waiting"
  /\ UNCHANGED <<queue_, ready_, stop_, joinable, request, data>>
  /\ UNCHANGED <<callVars, ioGhost>>

\* A condition variable may wake without a notification.
WorkerSpuriousWake ==
  /\ wpc = "waiting"
  /\ wpc' = "lock"
  /\ UNCHANGED <<queue_, ready_, stop_, mutex_, joinable, request, data>>
  /\ UNCHANGED <<callVars, ioGhost>>

\* if (stop_.load()) break;   -- the break releases the lock and leaves the
\* loop, which ends the thread.
WorkerCheckStop ==
  /\ wpc = "check"
  /\ IF stop_
       THEN /\ wpc' = "exited"
            /\ mutex_' = "free"
       ELSE /\ wpc' = "deq"
            /\ UNCHANGED mutex_
  /\ UNCHANGED <<queue_, ready_, stop_, joinable, request, data>>
  /\ UNCHANGED <<callVars, ioGhost>>

\* Mutant of WorkerDequeue: the ready entry is pushed when the request is
\* dequeued, before the callback has run.
WorkerDequeue_PushEarly ==
  /\ wpc = "deq"
  /\ request' = Head(queue_)
  /\ queue_' = Tail(queue_)
  /\ mutex_' = "free"
  /\ wpc' = "fetch"
  /\ fetchLog' = Append(fetchLog, Head(queue_))
  /\ ready_' = Append(ready_, [key |-> Head(queue_).key, data |-> NoData])
  /\ readyLog' = Append(readyLog, [key |-> Head(queue_).key, data |-> NoData])
  /\ UNCHANGED <<stop_, joinable, data>>
  /\ UNCHANGED <<callVars, enqLog, doneLog, delivered, stopCalls,
                 flips, joins, deqAtStop,
                 enqAtStop>>

\* request = queue_.front(); queue_.pop_front(); unlock; the callback is
\* invoked on the request.
\* Mutant of WorkerDequeue: the lock is kept while the fetch runs.
WorkerDequeue_HoldLock ==
  /\ wpc = "deq"
  /\ request' = front(queue_)
  /\ queue_' = pop_front(queue_)
  /\ wpc' = "fetch"
  /\ fetchLog' = Append(fetchLog, front(queue_))
  /\ UNCHANGED <<ready_, stop_, mutex_, joinable, data>>
  /\ UNCHANGED <<callVars, enqLog, doneLog, readyLog, delivered, stopCalls,
                 flips, joins, deqAtStop,
                 enqAtStop>>

WorkerDequeue ==
  /\ wpc = "deq"
  /\ request' = front(queue_)
  /\ queue_' = pop_front(queue_)
  /\ mutex_' = "free"
  /\ wpc' = "fetch"
  /\ fetchLog' = Append(fetchLog, front(queue_))
  /\ UNCHANGED <<ready_, stop_, joinable, data>>
  /\ UNCHANGED <<callVars, enqLog, doneLog, readyLog, delivered, stopCalls,
                 flips, joins, deqAtStop,
                 enqAtStop>>

\* auto data = fetch_cb_(request): the callback returns.
WorkerFetchReturn ==
  /\ wpc = "fetch"
  /\ \E d \in FetchResults : data' = d
  /\ wpc' = "push"
  /\ doneLog' = Append(doneLog, request.key)
  /\ UNCHANGED <<queue_, ready_, stop_, mutex_, joinable, request>>
  /\ UNCHANGED <<callVars, enqLog, fetchLog, readyLog, delivered, stopCalls,
                 flips, joins, deqAtStop,
                 enqAtStop>>

\* lock_guard; ready_.push_back(CacheEntry{request.key, std::move(data)});
WorkerPush ==
  /\ wpc = "push"
  /\ mutex_ = "free"
  /\ ready_' = push_back(ready_, [key |-> request.key, data |-> data])
  /\ readyLog' = Append(readyLog, [key |-> request.key, data |-> data])
  /\ request' = NoRequest
  /\ data' = NoData
  /\ wpc' = "loop"
  /\ UNCHANGED <<queue_, stop_, mutex_, joinable>>
  /\ UNCHANGED <<callVars, enqLog, fetchLog, doneLog, delivered, stopCalls,
                 flips, joins, deqAtStop,
                 enqAtStop>>

\* ------------------------------------------------------- caller operations
\* Enqueue: { lock_guard; queue_.push_back(request); }
Enqueue(c, r) ==
  /\ Alive
  /\ cpc[c] = "idle"
  /\ Len(enqLog) < MaxEnq
  /\ mutex_ = "free"
  /\ queue_' = push_back(queue_, r)
  /\ enqLog' = Append(enqLog, r)
  /\ cpc' = [cpc EXCEPT ![c] = "enq_notify"]
  /\ UNCHANGED <<ready_, stop_, mutex_, joinable, wpc, request, data, dtor>>
  /\ UNCHANGED <<fetchLog, doneLog, readyLog, delivered, stopCalls, flips,
                 joins, deqAtStop,
                 enqAtStop>>

\* Enqueue: cv_.notify_one();
EnqueueNotify(c) ==
  /\ cpc[c] = "enq_notify"
  /\ wpc' = Notified(wpc)
  /\ cpc' = [cpc EXCEPT ![c] = "idle"]
  /\ UNCHANGED <<queue_, ready_, stop_, mutex_, joinable, request, data, dtor>>
  /\ UNCHANGED ioGhost

\* PopReady: under the mutex, return nullopt when ready_ is empty, else
\* move out and pop the front entry.
PopReady(c) ==
  /\ Alive
  /\ cpc[c] = "idle"
  /\ mutex_ = "free"
  /\ IF ready_ = <<>>
       THEN UNCHANGED <<ready_, delivered>>
       ELSE /\ delivered' = Append(delivered, front(ready_))
            /\ ready_' = pop_front(ready_)
  /\ UNCHANGED <<queue_, stop_, mutex_, joinable, wpc, request, data>>
  /\ UNCHANGED <<callVars, enqLog, fetchLog, doneLog, readyLog, stopCalls,
                 flips, joins, deqAtStop,
                 enqAtStop>>

\* Mutant of compare_exchange_strong: a plain store that always succeeds.
compare_exchange_strong_Store(cur) == [ok |-> TRUE, val |-> TRUE]

\* stop_.compare_exchange_strong(expected = false, true): the value stored
\* and whether the exchange took place.
compare_exchange_strong(cur) ==
  IF cur = FALSE THEN [ok |-> TRUE, val |-> TRUE]
                 ELSE [ok |-> FALSE, val |-> cur]

\* Stop, lines 129-132: the exchange; a failed exchange returns at once.
\* byDtor: the call is the one ~IOThread makes.
StopExchange(c, byDtor) ==
  LET x == compare_exchange_strong(stop_) IN
  /\ stopCalls' = stopCalls + 1
  /\ stop_' = x.val
  /\ flips' = IF stop_' # stop_ THEN flips + 1 ELSE flips
  /\ deqAtStop' = IF stop_' # stop_ THEN Len(fetchLog) ELSE deqAtStop
  /\ enqAtStop' = IF stop_' # stop_ THEN Len(enqLog) ELSE enqAtStop
  /\ cpc' = [cpc EXCEPT ![c] = IF x.ok THEN "stop_notify" ELSE "idle"]
  /\ dtor' = IF byDtor THEN (IF x.ok THEN "running" ELSE "done") ELSE dtor
  /\ UNCHANGED <<queue_, ready_, mutex_, joinable, wpc, request, data>>
  /\ UNCHANGED <<enqLog, fetchLog, doneLog, readyLog, delivered, joins>>

\* A caller calls Stop.
Stop(c) ==
  /\ Alive
  /\ cpc[c] = "idle"
  /\ stopCalls < MaxStops
  /\ StopExchange(c, FALSE)

\* ~IOThread() { Stop(); } -- an object is destroyed by one thread while no
\* other call on it is in progress; no call follows.
Destructor(c) ==
  /\ Alive
  /\ \A o \in Callers : cpc[o] = "idle"
  /\ stopCalls < MaxStops
  /\ StopExchange(c, TRUE)

\* Stop: cv_.notify_all();
StopNotify(c) ==
  /\ cpc[c] = "stop_notify"
  /\ wpc' = Notified(wpc)
  /\ cpc' = [cpc EXCEPT ![c] = "stop_joinable"]
  /\ UNCHANGED <<queue_, ready_, stop_, mutex_, joinable, request, data, dtor>>
  /\ UNCHANGED ioGhost

\* The state a returning Stop call leaves its caller (and the destructor) in.
StopReturn(c) ==
  /\ cpc' = [cpc EXCEPT ![c] = "idle"]
  /\ dtor' = IF dtor = "running" THEN "done" ELSE dtor

\* Stop: if (worker_.joinable())
StopJoinable(c) ==
  /\ cpc[c] = "stop_joinable"
  /\ IF joinable
       THEN /\ cpc' = [cpc EXCEPT ![c] = "stop_join"]
            /\ UNCHANGED dtor
       ELSE StopReturn(c)
  /\ UNCHANGED ioVars
  /\ UNCHANGED ioGhost

\* Stop: worker_.join() returns once the worker thread has ended.
StopJoin(c) ==
  /\ cpc[c] = "stop_join"
  /\ wpc = "exited"
  /\ joinable' = FALSE
  /\ joins' = joins + 1
  /\ StopReturn(c)
  /\ UNCHANGED <<queue_, ready_, stop_, mutex_, wpc, request, data>>
  /\ UNCHANGED <<enqLog, fetchLog, doneLog, readyLog, delivered, stopCalls,
                 flips, deqAtStop,
                 enqAtStop>>

\* ---------------------------------------------------- IOThread::WaitReady
\* WaitReady(timeout) is declared in engine.hpp and defined nowhere in the
\* sources; it is taken from the specification of wait_ready: under mutex_,
\* ready_cv_.wait_for(lock, timeout, predicate), then STOPPED if stop is
\* set, else the front entry of ready_, else TIMEOUT.
ReadyPredicate == stop_ \/ ready_ # <<>>

WaitOutcome ==
  IF stop_ THEN "STOPPED" ELSE IF ready_ # <<>> THEN "ENTRY" ELSE "TIMEOUT"

\* WaitReady returns: the outcome, and the entry popped when there is one.
WaitReturn(c) ==
  /\ waitRes' = [waitRes EXCEPT ![c].res = WaitOutcome]
  /\ cpc' = [cpc EXCEPT ![c] = "idle"]
  /\ IF WaitOutcome = "ENTRY"
       THEN /\ delivered' = Append(delivered, front(ready_))
            /\ ready_' = pop_front(ready_)
       ELSE UNCHANGED <<ready_, delivered>>

\* WaitReady: lock, test the predicate; return when it holds, else release
\* the mutex and block on ready_cv_.
WaitReadyBegin(c) ==
  /\ Alive
  /\ cpc[c] = "idle"
  /\ mutex_ = "free"
  /\ IF ReadyPredicate
       THEN /\ ready_' = IF WaitOutcome = "ENTRY" THEN pop_front(ready_) ELSE ready_
            /\ delivered' = IF WaitOutcome = "ENTRY"
                              THEN Append(delivered, front(ready_)) ELSE delivered
            /\ waitRes' = [waitRes EXCEPT ![c] = [res |-> WaitOutcome, atStop |-> stop_]]
            /\ UNCHANGED cpc
       ELSE /\ cpc' = [cpc EXCEPT ![c] = "wait_blocked"]
            /\ waitRes' = [waitRes EXCEPT ![c] = [res |-> "none", atStop |-> stop_]]
            /\ UNCHANGED <<ready_, delivered>>
  /\ UNCHANGED <<queue_, stop_, mutex_, joinable, wpc, request, data, dtor>>
  /\ UNCHANGED <<enqLog, fetchLog, doneLog, readyLog, stopCalls, flips, joins,
                 deqAtStop,
                 enqAtStop>>

\* ready_cv_ may wake without a notification.
WaitReadySpuriousWake(c) ==
  /\ cpc[c] = "wait_blocked"
  /\ cpc' = [cpc EXCEPT ![c] = "wait_woken"]
  /\ UNCHANGED <<ioVars, dtor, ioGhost, waitRes>>

\* A woken waiter locks the mutex and tests the predicate again.
WaitReadyRecheck(c) ==
  /\ cpc[c] = "wait_woken"
  /\ mutex_ = "free"
  /\ IF ReadyPredicate
       THEN WaitReturn(c)
       ELSE /\ cpc' = [cpc EXCEPT ![c] = "wait_blocked"]
            /\ UNCHANGED <<ready_, delivered, waitRes>>
  /\ UNCHANGED <<queue_, stop_, mutex_, joinable, wpc, request, data, dtor>>
  /\ UNCHANGED <<enqLog, fetchLog, doneLog, readyLog, stopCalls, flips, joins,
                 deqAtStop,
                 enqAtStop>>

\* The timeout elapses: the waiter locks the mutex and returns by the
\* predicate's value.
WaitReadyTimeout(c) ==
  /\ cpc[c] \in {"wait_blocked", "wait_woken"}
  /\ mutex_ = "free"
  /\ WaitReturn(c)
  /\ UNCHANGED <<queue_, stop_, mutex_, joinable, wpc, request, data, dtor>>
  /\ UNCHANGED <<enqLog, fetchLog, doneLog, readyLog, stopCalls, flips, joins,
                 deqAtStop,
                 enqAtStop>>


\* ================================================================ LruCache
\* data.size() * sizeof(float)
Bytes(d) == Len(d) * SizeofFloat

\* State after LruCache::LruCache(max_bytes).
LruCacheInit(B) ==
  /\ max_bytes_ = B
  /\ current_bytes_ = 0
  /\ lru_ = <<>>
  /\ entries_ = <<>>
  /\ recency = <<>>
  /\ lastOp = [op |-> "none", key |-> "", data |-> <<>>, hit |-> FALSE]
  /\ preEvict = <<>>
  /\ evicted = <<>>

\* std::find(lru_.begin(), lru_.end(), key): position of the first
\* occurrence, 0 for lru_.end().
find(l, key) ==
  IF \E i \in 1..Len(l) : l[i] = key
    THEN CHOOSE i \in 1..Len(l) : l[i] = key /\ \A j \in 1..(i - 1) : l[j] # key
    ELSE 0

\* std::list::erase(it)
erase(l, i) == SubSeq(l, 1, i - 1) \o SubSeq(l, i + 1, Len(l))

\* std::list::push_front
push_front(l, key) == <<key>> \o l

\* Mutant of Touch: the key is pushed to the front without erasing it.
Touch_NoErase(l, key) == <<key>> \o l

\* Mutant of Touch: a key already in the list is left where it is.
Touch_Stale(l, key) ==
  IF \E i \in 1..Len(l) : l[i] = key THEN l ELSE <<key>> \o l

\* LruCache::Touch: erase the key where found, then push it to the front.
Touch(l, key) ==
  LET it == find(l, key) IN
  push_front(IF it # 0 THEN erase(l, it) ELSE l, key)

\* entries_.erase(it)
MapErase(e, key) == [k \in (DOMAIN e) \ {key} |-> e[k]]

\* entries_.emplace(key, ...) on an absent key / assignment to it->second.data
MapSet(e, key, d) == [k \in (DOMAIN e) \cup {key} |-> IF k = key THEN d ELSE e[k]]

\* Mutant of EvictCondition: eviction stops while two keys are left.
EvictCondition_KeepTwo(cb, l) == cb > max_bytes_ /\ Len(l) > 2

\* The loop condition of LruCache::EvictIfNeeded.
EvictCondition(cb, l) == cb > max_bytes_ /\ l # <<>>

\* LruCache::EvictIfNeeded: while the condition holds, pop the back of lru_
\* and, if the key is in the table, subtract its bytes and erase it.
\* st = [cb, lru, entries, out]; out collects the popped keys in order.
RECURSIVE EvictIfNeeded(_)
EvictIfNeeded(st) ==
  IF EvictCondition(st.cb, st.lru)
    THEN LET key == st.lru[Len(st.lru)]
             rest == SubSeq(st.lru, 1, Len(st.lru) - 1)
         IN  IF key \in DOMAIN st.entries
               THEN EvictIfNeeded([cb |-> st.cb - Bytes(st.entries[key]),
                                   lru |-> rest,
                                   entries |-> MapErase(st.entries, key),
                                   out |-> Append(st.out, key)])
               ELSE EvictIfNeeded([cb |-> st.cb,
                                   lru |-> rest,
                                   entries |-> st.entries,
                                   out |-> Append(st.out, key)])
    ELSE st

\* Mutant of PutBeforeEvict: a replacing Put adds the new payload's bytes
\* without subtracting the old payload's.
PutBeforeEvict_NoSubtract(key, d) ==
  [cb |-> current_bytes_ + Bytes(d),
   lru |-> IF key \in DOMAIN entries_ THEN Touch(lru_, key) ELSE push_front(lru_, key),
   entries |-> MapSet(entries_, key, d),
   out |-> <<>>]

\* LruCache::Put up to the call of EvictIfNeeded: replace (adjust the byte
\* count, assign, Touch) or insert (emplace, push_front, add bytes).
PutBeforeEvict(key, d) ==
  IF key \in DOMAIN entries_
    THEN [cb |-> (current_bytes_ - Bytes(entries_[key])) + Bytes(d),
          lru |-> Touch(lru_, key),
          entries |-> MapSet(entries_, key, d),
          out |-> <<>>]
    ELSE [cb |-> current_bytes_ + Bytes(d),
          lru |-> push_front(lru_, key),
          entries |-> MapSet(entries_, key, d),
          out |-> <<>>]

\* Ghost: the key becomes the most recently accessed one.
Accessed(r, key) == <<key>> \o SelectSeq(r, LAMBDA x : x # key)

\* Ghost: the keys of a sequence as a set.
Range(q) == {q[i] : i \in 1..Len(q)}

\* LruCache::Put(key, data)
Put(key, d) ==
  LET st == EvictIfNeeded(PutBeforeEvict(key, d)) IN
  /\ current_bytes_' = st.cb
  /\ lru_' = st.lru
  /\ entries_' = st.entries
  /\ preEvict' = Accessed(recency, key)
  /\ evicted' = st.out
  /\ recency' = SelectSeq(Accessed(recency, key), LAMBDA x : x \notin Range(st.out))
  /\ lastOp' = [op |-> "Put", key |-> key, data |-> d,
                hit |-> key \in DOMAIN entries_]
  /\ UNCHANGED max_bytes_

\* LruCache::Get(key): nullopt on a miss; on a hit Touch and return the entry.
Get(key) ==
  /\ IF key \in DOMAIN entries_
       THEN /\ lru_' = Touch(lru_, key)
            /\ recency' = Accessed(recency, key)
            /\ lastOp' = [op |-> "Get", key |-> key, data |-> entries_[key],
                          hit |-> TRUE]
       ELSE /\ UNCHANGED <<lru_, recency>>
            /\ lastOp' = [op |-> "Get", key |-> key, data |-> <<>>, hit |-> FALSE]
  /\ preEvict' = <<>>
  /\ evicted' = <<>>
  /\ UNCHANGED <<max_bytes_, current_bytes_, entries_>>

\* LruCache::CurrentBytes
CurrentBytes == current_bytes_

\* ============================================================== BufferPool
\* Integers a caller may pass as a page id, and values a read outside the
\* free stack may yield.
AnyId == (0 - 1)..MaxPages

\* The result of pool_acquire: NULL, or data + page_id * page_size given as
\* the offset from data.
NullPtr == [null |-> TRUE, off |-> 0]
PagePtr(page_id) == [null |-> FALSE, off |-> page_id * page_size]

NoPoolOp == [op |-> "none", arg |-> 0, accepted |-> FALSE, id |-> 0 - 1]

\* State after pool_create(N, S): free_stack = [0, 1, ..., N-1], top = N.
pool_create(N, S) ==
  /\ num_pages = N
  /\ page_size = S
  /\ top = N
  /\ free_stack = [i \in 0..(N - 1) |-> i]
  /\ out_id = 0 - 1
  /\ pool_ret = NullPtr
  /\ poolOp = NoPoolOp
  /\ held = {}
  /\ fresh = TRUE
  /\ acq = <<>>
  /\ ppc = [t \in Callers |-> "idle"]
  /\ ploc = [t \in Callers |-> 0]
  /\ pid = [t \in Callers |-> 0 - 1]
  /\ theld = [t \in Callers |-> {}]
  /\ pcalls = 0

\* pool_acquire: if (pool->top <= 0)
Exhausted(t) == t <= 0

\* Mutant of ExhaustedOut: the failing call stores a sentinel id.
ExhaustedOut_Sentinel(out) == 0 - 1

\* pool_acquire on an exhausted pool returns before *out_id is assigned.
ExhaustedOut(out) == out

\* Mutant of InvalidId: the upper limit is off by one.
InvalidId_OffByOne(page_id) == page_id < 0 \/ page_id > num_pages

\* pool_release: if (page_id < 0 || page_id >= pool->num_pages)
InvalidId(page_id) == page_id < 0 \/ page_id >= num_pages

\* pool_release: if (pool->top >= pool->num_pages)
Overflow(t) == t >= num_pages

\* Mutant of StackPush: the id is stored at the bottom of the stack.
StackPush_Bottom(fs, t, page_id) == [fs EXCEPT ![0] = page_id]

\* pool->free_stack[pool->top] = page_id
StackPush(fs, t, page_id) == [fs EXCEPT ![t] = page_id]

\* The call record kept for the last pool call.
PoolCall(op, arg, accepted, id) ==
  [op |-> op, arg |-> arg, accepted |-> accepted, id |-> id]

\* pool_acquire(pool, out_id) by a single caller; want_id: out_id != NULL.
pool_acquire(want_id) ==
  /\ IF Exhausted(top)
       THEN /\ pool_ret' = NullPtr
            /\ out_id' = ExhaustedOut(out_id)
            /\ poolOp' = PoolCall("acquire", want_id, FALSE, 0 - 1)
            /\ UNCHANGED <<top, held, acq>>
       ELSE LET page_id == free_stack[top - 1] IN
            /\ top' = top - 1
            /\ out_id' = IF want_id THEN page_id ELSE out_id
            /\ pool_ret' = PagePtr(page_id)
            /\ poolOp' = PoolCall("acquire", want_id, TRUE, page_id)
            /\ held' = held \cup {page_id}
            /\ acq' = IF fresh THEN Append(acq, page_id) ELSE acq
  /\ UNCHANGED <<num_pages, page_size, free_stack, fresh, poolThreads>>

\* pool_release(pool, page_id) by a single caller.
pool_release(page_id) ==
  /\ IF InvalidId(page_id) \/ Overflow(top)
       THEN /\ poolOp' = PoolCall("release", page_id, FALSE, page_id)
            /\ UNCHANGED <<free_stack, top, held>>
       ELSE /\ free_stack' = StackPush(free_stack, top, page_id)
            /\ top' = top + 1
            /\ poolOp' = PoolCall("release", page_id, TRUE, page_id)
            /\ held' = held \ {page_id}
  /\ fresh' = FALSE
  /\ pool_ret' = NullPtr      \* void: the caller has no page pointer from this call
  /\ acq' = <<>>
  /\ UNCHANGED <<num_pages, page_size, out_id, poolThreads>>

\* pool_get_ptr(pool, page_id)
pool_get_ptr(page_id) ==
  IF page_id < 0 \/ page_id >= num_pages THEN NullPtr ELSE PagePtr(page_id)

\* pool_free_count(pool)
pool_free_count == top

\* ---- pool_acquire and pool_release called from several threads.
\* memory.c takes no lock, so a call is a sequence of loads and stores of
\* pool->top and pool->free_stack that interleaves with the other threads'.
poolSeq == <<out_id, pool_ret, poolOp, held, fresh, acq>>

\* free_stack[idx]; an index outside the array reads whatever lies there.
StackRead(idx) ==
  IF idx \in 0..(num_pages - 1) THEN {free_stack[idx]} ELSE (0 - 1)..num_pages

\* pool_acquire line 55: if (pool->top <= 0) return NULL;
AcqTest(t) ==
  /\ ppc[t] = "idle"
  /\ pcalls < MaxRaceCalls
  /\ pcalls' = pcalls + 1
  /\ ppc' = [ppc EXCEPT ![t] = IF Exhausted(top) THEN "idle" ELSE "acq_load"]
  /\ UNCHANGED <<poolVars, poolSeq, ploc, pid, theld>>

\* pool_acquire line 63, pool->top--: the load of top
AcqLoad(t) ==
  /\ ppc[t] = "acq_load"
  /\ ploc' = [ploc EXCEPT ![t] = top]
  /\ ppc' = [ppc EXCEPT ![t] = "acq_store"]
  /\ UNCHANGED <<poolVars, poolSeq, pid, theld, pcalls>>

\* pool_acquire line 63, pool->top--: the store of top
AcqStore(t) ==
  /\ ppc[t] = "acq_store"
  /\ top' = ploc[t] - 1
  /\ ppc' = [ppc EXCEPT ![t] = "acq_read"]
  /\ UNCHANGED <<num_pages, page_size, free_stack, poolSeq, ploc, pid, theld, pcalls>>

\* pool_acquire lines 64-71: page_id = pool->free_stack[pool->top], with top
\* read again or kept from the decrement; the caller now holds page_id.
AcqRead(t) ==
  /\ ppc[t] = "acq_read"
  /\ \E idx \in {top, ploc[t] - 1} : \E page_id \in StackRead(idx) :
       theld' = [theld EXCEPT ![t] = @ \cup {page_id}]
  /\ ppc' = [ppc EXCEPT ![t] = "idle"]
  /\ ploc' = [ploc EXCEPT ![t] = 0]
  /\ UNCHANGED <<poolVars, poolSeq, pid, pcalls>>

\* pool_release lines 75-84 with an id the caller holds: the two tests.
RelTest(t, page_id) ==
  /\ ppc[t] = "idle"
  /\ page_id \in theld[t]
  /\ pcalls < MaxRaceCalls
  /\ pcalls' = pcalls + 1
  /\ IF InvalidId(page_id) \/ Overflow(top)
       THEN UNCHANGED <<ppc, pid, theld>>
       ELSE /\ ppc' = [ppc EXCEPT ![t] = "rel_store"]
            /\ pid' = [pid EXCEPT ![t] = page_id]
            /\ theld' = [theld EXCEPT ![t] = @ \ {page_id}]
  /\ UNCHANGED <<poolVars, poolSeq, ploc>>

\* pool_release line 87: pool->free_stack[pool->top] = page_id; a store
\* past the end of the array changes nothing of the pool.
RelStore(t) ==
  /\ ppc[t] = "rel_store"
  /\ free_stack' = IF top \in 0..(num_pages - 1)
                     THEN StackPush(free_stack, top, pid[t])
                     ELSE free_stack
  /\ ppc' = [ppc EXCEPT ![t] = "rel_load"]
  /\ UNCHANGED <<num_pages, page_size, top, poolSeq, ploc, pid, theld, pcalls>>

\* pool_release line 88, pool->top++: the load of top
RelLoad(t) ==
  /\ ppc[t] = "rel_load"
  /\ ploc' = [ploc EXCEPT ![t] = top]
  /\ ppc' = [ppc EXCEPT ![t] = "rel_inc"]
  /\ UNCHANGED <<poolVars, poolSeq, pid, theld, pcalls>>

\* pool_release line 88, pool->top++: the store of top
RelInc(t) ==
  /\ ppc[t] = "rel_inc"
  /\ top' = ploc[t] + 1
  /\ ppc' = [ppc EXCEPT ![t] = "idle"]
  /\ ploc' = [ploc EXCEPT ![t] = 0]
  /\ pid' = [pid EXCEPT ![t] = 0 - 1]
  /\ UNCHANGED <<num_pages, page_size, free_stack, poolSeq, theld, pcalls>>


\* =========================================================== OutcoreEngine
\* The threads that register blocks and queue prefetches; every thread of
\* Callers consumes.
Producers == {"t1"}

\* Cache budgets (cache_bytes) the engine is constructed with.
EngineBudgets == {SizeofFloat, MaxBudget}

NoMeta == [key |-> "", found |-> FALSE, is_zero |-> FALSE, descriptor |-> <<>>]
NoEntry == [key |-> "", data |-> <<>>]
NoEngineOp == [op |-> "none", key |-> "", ok |-> FALSE, data |-> <<>>]

\* State after OutcoreEngine::OutcoreEngine: an empty registry, and
\* write_index_ = 0.
EngineInit ==
  /\ metadata_ = <<>>
  /\ write_index_ = 0
  /\ epc = [c \in Callers |-> "idle"]
  /\ emeta = [c \in Callers |-> NoMeta]
  /\ eready = [c \in Callers |-> NoEntry]
  /\ eidx = [c \in Callers |-> 0]
  /\ ecalls = 0
  /\ everNonZero = {}
  /\ lastRegistered = <<>>
  /\ engOp = NoEngineOp

\* Mutant of Elements: the dimensions are added.
RECURSIVE Elements_Sum(_)
Elements_Sum(shape) ==
  IF shape = <<>> THEN 0 ELSE Head(shape) + Elements_Sum(Tail(shape))

\* The callback's loop: elements = 1; for (dim : tile_shape) elements *= dim
RECURSIVE Elements(_)
Elements(shape) ==
  IF shape = <<>> THEN 1 ELSE Head(shape) * Elements(Tail(shape))

\* The engine's fetch callback: std::vector<float>(elements, 0.0f)
EngineFetch(r) == [i \in 1..Elements(r.descriptor.tile_shape) |-> 0]

\* auto data = fetch_cb_(request) with the engine's callback.
EngineFetchReturn ==
  /\ wpc = "fetch"
  /\ data' = EngineFetch(request)
  /\ wpc' = "push"
  /\ doneLog' = Append(doneLog, request.key)
  /\ UNCHANGED <<queue_, ready_, stop_, mutex_, joinable, request>>
  /\ UNCHANGED <<callVars, enqLog, fetchLog, readyLog, delivered, stopCalls,
                 flips, joins, deqAtStop,
                 enqAtStop>>

\* MetadataRegistry::Lookup(key)
Lookup(key) ==
  IF key \in DOMAIN metadata_
    THEN [key |-> key, found |-> TRUE, is_zero |-> metadata_[key].is_zero,
          descriptor |-> metadata_[key].descriptor]
    ELSE [key |-> key, found |-> FALSE, is_zero |-> FALSE, descriptor |-> <<>>]

\* Mutant of RegisterBlock: a key already registered keeps its metadata.
RegisterBlock_KeepFirst(c, key, metadata) ==
  /\ epc[c] = "idle" /\ cpc[c] = "idle"
  /\ ecalls < MaxEngineCalls
  /\ ecalls' = ecalls + 1
  /\ metadata_' = IF key \in DOMAIN metadata_ THEN metadata_
                  ELSE MapSet(metadata_, key, metadata)
  /\ everNonZero' = IF metadata.is_zero THEN everNonZero ELSE everNonZero \cup {key}
  /\ lastRegistered' = MapSet(lastRegistered, key, metadata)
  /\ UNCHANGED <<write_index_, engineLocals, engOp>>
  /\ UNCHANGED <<ioVars, callVars, ioGhost, cacheVars, cacheGhost, allPool, allPure, waitVars, regVars>>

\* OutcoreEngine::RegisterBlock -> MetadataRegistry::Register:
\* entries_[key] = metadata, under the registry's mutex.
RegisterBlock(c, key, metadata) ==
  /\ epc[c] = "idle" /\ cpc[c] = "idle"
  /\ ecalls < MaxEngineCalls
  /\ ecalls' = ecalls + 1
  /\ metadata_' = MapSet(metadata_, key, metadata)
  /\ everNonZero' = IF metadata.is_zero THEN everNonZero ELSE everNonZero \cup {key}
  /\ lastRegistered' = MapSet(lastRegistered, key, metadata)
  /\ UNCHANGED <<write_index_, engineLocals, engOp>>
  /\ UNCHANGED <<ioVars, callVars, ioGhost, cacheVars, cacheGhost, allPool, allPure, waitVars, regVars>>

\* QueuePrefetch: auto meta = metadata_.Lookup(key);
QueuePrefetchLookup(c, key) ==
  /\ epc[c] = "idle" /\ cpc[c] = "idle"
  /\ ecalls < MaxEngineCalls
  /\ ecalls' = ecalls + 1
  /\ emeta' = [emeta EXCEPT ![c] = Lookup(key)]
  /\ epc' = [epc EXCEPT ![c] = "qp_test"]
  /\ UNCHANGED <<engineVars, eready, eidx, everNonZero, lastRegistered, engOp>>
  /\ UNCHANGED <<ioVars, callVars, ioGhost, cacheVars, cacheGhost, allPool, allPure, waitVars, regVars>>

\* Mutant of Skipped: only unregistered keys are skipped.
Skipped_ZeroFetched(meta) == ~meta.found

\* QueuePrefetch: if (!meta || meta->is_zero) return;
Skipped(meta) == ~meta.found \/ meta.is_zero

\* QueuePrefetch: the test of meta, then either the return or
\* io_thread_.Enqueue(PrefetchRequest{key, meta->descriptor}) up to its
\* notify_one (EnqueueNotify).
QueuePrefetchTest(c) ==
  /\ epc[c] = "qp_test"
  /\ IF Skipped(emeta[c])
       THEN UNCHANGED <<ioVars, callVars, ioGhost>>
       ELSE Enqueue(c, [key |-> emeta[c].key, descriptor |-> emeta[c].descriptor])
  /\ engOp' = [op |-> "QueuePrefetch", key |-> emeta[c].key,
               ok |-> ~Skipped(emeta[c]), data |-> <<>>]
  /\ epc' = [epc EXCEPT ![c] = "idle"]
  /\ emeta' = [emeta EXCEPT ![c] = NoMeta]
  /\ UNCHANGED <<engineVars, eready, eidx, ecalls, everNonZero, lastRegistered>>
  /\ UNCHANGED <<cacheVars, cacheGhost, allPool, allPure, waitVars, regVars>>

\* TryConsume: auto ready = io_thread_.PopReady(); return false when it is
\* empty.
TryConsumePop(c) ==
  /\ epc[c] = "idle"
  /\ ecalls < MaxEngineCalls
  /\ ecalls' = ecalls + 1
  /\ PopReady(c)
  /\ IF ready_ = <<>>
       THEN /\ engOp' = [op |-> "TryConsume", key |-> "", ok |-> FALSE, data |-> <<>>]
            /\ UNCHANGED <<epc, eready>>
       ELSE /\ eready' = [eready EXCEPT ![c] = front(ready_)]
            /\ epc' = [epc EXCEPT ![c] = "tc_put"]
            /\ UNCHANGED engOp
  /\ UNCHANGED <<engineVars, emeta, eidx, everNonZero, lastRegistered>>
  /\ UNCHANGED <<cacheVars, cacheGhost, allPool, allPure, waitVars, regVars>>

\* TryConsume: cache_.Put(ready->key, std::move(ready->data));
TryConsumePut(c) ==
  /\ epc[c] = "tc_put"
  /\ Put(eready[c].key, eready[c].data)
  /\ epc' = [epc EXCEPT ![c] = "swap_load"]
  /\ engOp' = NoEngineOp
  /\ UNCHANGED <<engineVars, emeta, eready, eidx, ecalls, everNonZero, lastRegistered>>
  /\ UNCHANGED <<ioVars, callVars, ioGhost, allPool, allPure, waitVars, regVars>>

\* DoubleBuffer::Swap, write_index_ = 1 - write_index_: the load
SwapLoad(c) ==
  /\ epc[c] = "swap_load"
  /\ eidx' = [eidx EXCEPT ![c] = write_index_]
  /\ epc' = [epc EXCEPT ![c] = "swap_store"]
  /\ UNCHANGED <<engineVars, emeta, eready, engineGhost>>
  /\ UNCHANGED <<ioVars, callVars, ioGhost, cacheVars, cacheGhost, allPool, allPure, waitVars, regVars>>

\* DoubleBuffer::Swap: the store; TryConsume returns true.
SwapStore(c) ==
  /\ epc[c] = "swap_store"
  /\ write_index_' = 1 - eidx[c]
  /\ engOp' = [op |-> "TryConsume", key |-> eready[c].key, ok |-> TRUE,
               data |-> eready[c].data]
  /\ epc' = [epc EXCEPT ![c] = "idle"]
  /\ eready' = [eready EXCEPT ![c] = NoEntry]
  /\ eidx' = [eidx EXCEPT ![c] = 0]
  /\ UNCHANGED <<metadata_, emeta, ecalls, everNonZero, lastRegistered>>
  /\ UNCHANGED <<ioVars, callVars, ioGhost, cacheVars, cacheGhost, allPool, allPure, waitVars, regVars>>

\* DoubleBuffer::WriteBuffer / ReadBuffer: the halves they select.
WriteBuffer == write_index_
ReadBuffer == 1 - write_index_

\* Mutant of Pending: the request being fetched is counted as well.
Pending_WithInFlight == Len(queue_) + (IF wpc = "fetch" THEN 1 ELSE 0)

\* IOThread::Pending
Pending == Len(queue_)

\* ========================================================= AlignChunkToTile
\* Shapes of rank 0..2 with dimensions 0..n.
Shapes(n) == UNION {[1..r -> 0..n] : r \in 0..2}

\* sizeof of the element types a caller passes as element_bytes.
ElementBytes == {1, SizeofFloat, 2 * SizeofFloat}

NotCalled == [called |-> FALSE]
InvalidArgument == [called |-> TRUE, ok |-> FALSE]

\* No registry exists.
NoRegistry == [rank |-> 0]

RegIdle == reg = NoRegistry /\ regOp = [op |-> "none"]

\* No WaitReady call has been made.
WaitIdle == waitRes = [c \in Callers |-> [res |-> "none", atStop |-> FALSE]]

\* No call has been made: the arguments are empty.
AlignIdle ==
  /\ al_tile = <<>>
  /\ al_align = <<>>
  /\ al_elem = 0
  /\ al_out = NotCalled

PureInit == AlignIdle /\ WaitIdle /\ RegIdle

\* Mutant of AlignUp: the quotient is rounded down.
AlignUp_Floor(tile, a) ==
  LET align == IF a # 0 THEN a ELSE 1 IN (tile \div align) * align

\* align = chunk_alignment[i] ? chunk_alignment[i] : 1;
\* aligned = ((tile + align - 1) / align) * align
AlignUp(tile, a) ==
  LET align == IF a # 0 THEN a ELSE 1 IN ((tile + align - 1) \div align) * align

\* Mutant of AlignedBytes: the chunk's elements are counted.
AlignedBytes_Chunk(tile_shape, chunk_shape, element_bytes) ==
  Elements(chunk_shape) * element_bytes

\* elements *= tile over the loop; descriptor.bytes = elements * element_bytes
AlignedBytes(tile_shape, chunk_shape, element_bytes) ==
  Elements(tile_shape) * element_bytes

\* OutcoreEngine::AlignChunkToTile: the descriptor, or the invalid_argument
\* thrown on a rank mismatch.
AlignChunkToTile(tile_shape, chunk_alignment, element_bytes) ==
  IF Len(tile_shape) # Len(chunk_alignment)
    THEN InvalidArgument
    ELSE LET chunk_shape ==
               [i \in 1..Len(tile_shape) |-> AlignUp(tile_shape[i], chunk_alignment[i])]
         IN [called |-> TRUE, ok |-> TRUE,
             descriptor |->
               [tile_shape |-> tile_shape,
                chunk_shape |-> chunk_shape,
                bytes |-> AlignedBytes(tile_shape, chunk_shape, element_bytes)]]

\* Descriptors of the blocks registered with the engine, each produced by
\* AlignChunkToTile: a tile of one element in a chunk of MaxDim, and a tile
\* that fills its chunk.
EngineDescriptors ==
  {AlignChunkToTile(<<1>>, <<MaxDim>>, SizeofFloat).descriptor,
   AlignChunkToTile(<<MaxDim, 1>>, <<1, 0>>, SizeofFloat).descriptor}

\* BlockMetadata{is_zero, hdf5_path, descriptor}; no engine method reads
\* hdf5_path.
BlockMetadata ==
  {m \in [is_zero : BOOLEAN, descriptor : EngineDescriptors] :
     m.is_zero => m.descriptor.tile_shape = <<1>>}

\* A caller calls AlignChunkToTile on its arguments.
CallAlign ==
  /\ ~al_out.called
  /\ al_out' = AlignChunkToTile(al_tile, al_align, al_elem)
  /\ UNCHANGED <<al_tile, al_align, al_elem>>

\* ========================================================== TensorRegistry
\* Rank-3 registries: the arrays of TensorRegistry hold three axes and
\* registry_get_tile reads all three. The middle axis is kept to extents
\* 1 and 2.
GlobalDims == {g \in [1..Rank -> 1..MaxGlobal] : g[2] <= 2}

TargetBytes ==
  {e * SizeofDouble + r : e \in 0..(MaxGlobal ^ Rank), r \in {0, SizeofDouble - 1}}

\* floor(pow((double)n, 1.0 / rank)): the integer root, and for a perfect
\* power above 1 also the integer below it, since pow with the rounded
\* exponent 1.0/3 may return a value just under the exact root.
FloorSide(n) ==
  LET r == CHOOSE x \in 0..n : x ^ Rank <= n /\ (x + 1) ^ Rank > n
  IN  IF r > 1 /\ r ^ Rank = n THEN {r - 1, r} ELSE {r}

\* internal_calc_chunk without the clamp to the global extent.
internal_calc_chunk_NoClamp(target, global) ==
  {[i \in 1..Rank |-> IF side < 1 THEN 1 ELSE side]
     : side \in FloorSide(target \div SizeofDouble)}

\* internal_calc_chunk: the chunk shapes the call can produce.
internal_calc_chunk(target, global) ==
  LET total_elems == target \div SizeofDouble
  IN  {[i \in 1..Rank |->
          LET s == IF side < 1 THEN 1 ELSE side
          IN  IF s > global[i] THEN global[i] ELSE s]
        : side \in FloorSide(total_elems)}

\* Reverse linearisation of slot idx (registry_create's inner loop).
Coords(idx, grid_dims) ==
  <<(idx \div (grid_dims[3] * grid_dims[2])) % grid_dims[1],
    (idx \div grid_dims[3]) % grid_dims[2],
    idx % grid_dims[3]>>

registry_create(global_dims, target_chunk_bytes) ==
  /\ reg = NoRegistry
  /\ \E chunk_dims \in internal_calc_chunk(target_chunk_bytes, global_dims) :
       LET grid_dims == [i \in 1..Rank |->
                           (global_dims[i] + chunk_dims[i] - 1) \div chunk_dims[i]]
           total_tiles == grid_dims[1] * grid_dims[2] * grid_dims[3]
       IN  reg' = [rank |-> Rank,
                   global_dims |-> global_dims,
                   chunk_dims |-> chunk_dims,
                   grid_dims |-> grid_dims,
                   total_tiles |-> total_tiles,
                   tiles |-> [idx \in 1..total_tiles |->
                     LET coords == Coords(idx - 1, grid_dims)
                     IN  [global_coords |-> coords,
                          phys_offset |-> [d \in 1..Rank |-> coords[d] * chunk_dims[d]],
                          status |-> "NULL",
                          buffer_id |-> 0 - 1]]]
  /\ regOp' = [op |-> "create"]

\* The NULL tile pointer; a tile pointer is the 0-based index of its slot.
NullTile == 0 - 1

\* registry_get_tile with the strides of the first two axes exchanged.
registry_get_tile_Stride(r, i, j, k) ==
  IF i >= r.grid_dims[1] \/ j >= r.grid_dims[2] \/ k >= r.grid_dims[3]
    THEN NullTile
    ELSE i * r.grid_dims[3] + j * (r.grid_dims[1] * r.grid_dims[3]) + k

registry_get_tile(r, i, j, k) ==
  IF i >= r.grid_dims[1] \/ j >= r.grid_dims[2] \/ k >= r.grid_dims[3]
    THEN NullTile
    ELSE LET ny == r.grid_dims[2]
             nz == r.grid_dims[3]
         IN  i * (ny * nz) + j * nz + k

\* A caller looks a tile up, once after the registry was made or scanned.
GetTile(i, j, k) ==
  /\ reg # NoRegistry
  /\ regOp.op \in {"create", "scan"}
  /\ regOp' = [op |-> "get_tile", i |-> i, j |-> j, k |-> k,
               ret |-> registry_get_tile(reg, i, j, k)]
  /\ UNCHANGED reg

\* What H5Dget_chunk_info reports for one chunk: an offset, or a failure.
InfoFailure == <<>>

ReportedOffsets ==
  {<<1, 1, 1>>, <<MaxGlobal - 1, 0, MaxGlobal - 1>>, <<0, 0, MaxGlobal>>}

ChunkReports ==
  UNION {[1..n -> ReportedOffsets \cup {InfoFailure}] : n \in 0..2}

\* The tile index of a reported offset, taken as the offset itself.
TileCoords_Raw(r, chunk_offset) == chunk_offset

\* Physical offset -> logical tile index (registry_scan_file, step 4).
TileCoords(r, chunk_offset) ==
  [d \in 1..Rank |-> chunk_offset[d] \div r.chunk_dims[d]]

\* The loop of registry_scan_file over the reported chunks.
RECURSIVE ScanChunks(_, _, _)
ScanChunks(r, chunks, found_count) ==
  IF chunks = <<>> THEN [reg |-> r, ret |-> found_count]
  ELSE IF Head(chunks) = InfoFailure
    THEN ScanChunks(r, Tail(chunks), found_count)
  ELSE LET tile_coords == TileCoords(r, Head(chunks))
           tile == registry_get_tile(r, tile_coords[1], tile_coords[2], tile_coords[3])
       IN  IF tile # NullTile
             THEN ScanChunks([r EXCEPT !.tiles[tile + 1].status = "ON_DISK"],
                             Tail(chunks), found_count + 1)
             ELSE ScanChunks(r, Tail(chunks), found_count)

\* registry_scan_file on a registry that was just made. space_ok is whether
\* H5Dget_space and H5Dget_num_chunks succeed.
registry_scan_file(space_ok, chunks) ==
  /\ reg # NoRegistry
  /\ regOp.op = "create"
  /\ IF ~space_ok
       THEN /\ regOp' = [op |-> "scan", chunks |-> <<>>, ret |-> 0 - 1]
            /\ UNCHANGED reg
       ELSE LET out == ScanChunks(reg, chunks, 0)
            IN  /\ reg' = out.reg
                /\ regOp' = [op |-> "scan", chunks |-> chunks, ret |-> out.ret]

registry_destroy ==
  /\ reg # NoRegistry
  /\ reg' = NoRegistry
  /\ regOp' = [op |-> "none"]

\* ========================================================== specifications
\* The pipeline on its own: an IOThread with its worker and caller threads.
Init ==
  /\ IOInit /\ LruCacheInit(MaxBudget) /\ pool_create(MaxPages, MaxPageSize)
  /\ EngineInit
  /\ PureInit

Next ==
  \/ WorkerLoopTest /\ UNCHANGED frameIO
  \/ WorkerLockAndTest /\ UNCHANGED frameIO
  \/ WorkerBlock /\ UNCHANGED frameIO
  \/ WorkerSpuriousWake /\ UNCHANGED frameIO
  \/ WorkerCheckStop /\ UNCHANGED frameIO
  \/ WorkerDequeue /\ UNCHANGED frameIO
  \/ WorkerFetchReturn /\ UNCHANGED frameIO
  \/ WorkerPush /\ UNCHANGED frameIO
  \/ \E c \in Callers, r \in PrefetchRequest :
       Enqueue(c, r) /\ UNCHANGED frameIO
  \/ \E c \in Callers : EnqueueNotify(c) /\ UNCHANGED frameIO
  \/ \E c \in Callers : PopReady(c) /\ UNCHANGED frameIO
  \/ \E c \in Callers : Stop(c) /\ UNCHANGED frameIO
  \/ \E c \in Callers : Destructor(c) /\ UNCHANGED frameIO
  \/ \E c \in Callers : StopNotify(c) /\ UNCHANGED frameIO
  \/ \E c \in Callers : StopJoinable(c) /\ UNCHANGED frameIO
  \/ \E c \in Callers : StopJoin(c) /\ UNCHANGED frameIO

Spec == Init /\ [][Next]_vars

\* The pipeline with consumers that also wait in WaitReady.
frameWait == <<cacheVars, cacheGhost, allPool, allPure, allEngine, regVars>>

WaitNext ==
  \/ Next
  \/ \E c \in Callers : WaitReadyBegin(c) /\ UNCHANGED frameWait
  \/ \E c \in Callers : WaitReadySpuriousWake(c) /\ UNCHANGED frameWait
  \/ \E c \in Callers : WaitReadyRecheck(c) /\ UNCHANGED frameWait
  \/ \E c \in Callers : WaitReadyTimeout(c) /\ UNCHANGED frameWait

WaitSpec == Init /\ [][WaitNext]_vars

\* The cache on its own: any sequence of Put and Get calls on a cache of
\* any budget up to MaxBudget.
CacheInit ==
  /\ IOInit
  /\ \E B \in 0..MaxBudget : LruCacheInit(B)
  /\ pool_create(MaxPages, MaxPageSize)
  /\ EngineInit
  /\ PureInit

CacheNext ==
  \/ \E k \in Keys, d \in Payloads :
       Put(k, d) /\ UNCHANGED frameCache
  \/ \E k \in Keys : Get(k) /\ UNCHANGED frameCache

CacheSpec == CacheInit /\ [][CacheNext]_vars


\* The pipeline under the scheduling the threads get: a running thread
\* keeps taking steps (the worker through its loop, the callback returning;
\* a caller through the call it is in). Nothing obliges a caller to begin a
\* call, and nothing obliges a condition variable to wake spuriously.
WorkerRun ==
  /\ \/ WorkerLoopTest
     \/ WorkerLockAndTest
     \/ WorkerBlock
     \/ WorkerCheckStop
     \/ WorkerDequeue
     \/ WorkerFetchReturn
     \/ WorkerPush
  /\ UNCHANGED frameIO

CallerRun(c) ==
  /\ \/ EnqueueNotify(c)
     \/ StopNotify(c)
     \/ StopJoinable(c)
     \/ StopJoin(c)
  /\ UNCHANGED frameIO

Fairness ==
  /\ WF_vars(WorkerRun)
  /\ \A c \in Callers : WF_vars(CallerRun(c))

FairSpec == Init /\ [][Next]_vars /\ Fairness

\* The pool used by one caller: any sequence of pool_acquire and
\* pool_release calls, release with any integer id, on a pool of any size.
PoolInit ==
  /\ IOInit
  /\ LruCacheInit(MaxBudget)
  /\ \E N \in 0..MaxPages : pool_create(N, MaxPageSize)
  /\ EngineInit
  /\ PureInit

framePool == <<ioVars, callVars, ioGhost, cacheVars, cacheGhost, allEngine, allPure, waitVars, regVars>>

PoolNext ==
  \/ \E w \in BOOLEAN : pool_acquire(w) /\ UNCHANGED framePool
  \/ \E i \in AnyId : pool_release(i) /\ UNCHANGED framePool

PoolSpec == PoolInit /\ [][PoolNext]_vars

\* The buffer pool shared by the threads of Callers.
PoolThreadsInit ==
  /\ IOInit
  /\ LruCacheInit(MaxBudget)
  /\ \E N \in 1..MaxRacePages : pool_create(N, MaxPageSize)
  /\ EngineInit
  /\ PureInit

PoolThreadsNext ==
  \/ \E t \in Callers : AcqTest(t) /\ UNCHANGED framePool
  \/ \E t \in Callers : AcqLoad(t) /\ UNCHANGED framePool
  \/ \E t \in Callers : AcqStore(t) /\ UNCHANGED framePool
  \/ \E t \in Callers : AcqRead(t) /\ UNCHANGED framePool
  \/ \E t \in Callers : \E i \in AnyId : RelTest(t, i) /\ UNCHANGED framePool
  \/ \E t \in Callers : RelStore(t) /\ UNCHANGED framePool
  \/ \E t \in Callers : RelLoad(t) /\ UNCHANGED framePool
  \/ \E t \in Callers : RelInc(t) /\ UNCHANGED framePool

PoolThreadsSpec == PoolThreadsInit /\ [][PoolThreadsNext]_vars


\* The engine: callers register blocks, queue prefetches and consume, the
\* worker runs the engine's callback.  The engine is not destroyed.
EngineSpecInit ==
  /\ IOInit
  /\ \E B \in EngineBudgets : LruCacheInit(B)
  /\ pool_create(MaxPages, MaxPageSize)
  /\ EngineInit
  /\ PureInit

frameWorker == <<cacheVars, cacheGhost, allPool, allPure, waitVars, regVars, allEngine>>

EngineNext ==
  \/ WorkerLoopTest /\ UNCHANGED frameWorker
  \/ WorkerLockAndTest /\ UNCHANGED frameWorker
  \/ WorkerBlock /\ UNCHANGED frameWorker
  \/ WorkerSpuriousWake /\ UNCHANGED frameWorker
  \/ WorkerCheckStop /\ UNCHANGED frameWorker
  \/ WorkerDequeue /\ UNCHANGED frameWorker
  \/ EngineFetchReturn /\ UNCHANGED frameWorker
  \/ WorkerPush /\ UNCHANGED frameWorker
  \/ \E c \in Callers : EnqueueNotify(c) /\ UNCHANGED frameWorker
  \/ \E c \in Producers, k \in PipelineKeys, m \in BlockMetadata : RegisterBlock(c, k, m)
  \/ \E c \in Producers, k \in PipelineKeys : QueuePrefetchLookup(c, k)
  \/ \E c \in Callers : QueuePrefetchTest(c)
  \/ \E c \in Callers : TryConsumePop(c)
  \/ \E c \in Callers : TryConsumePut(c)
  \/ \E c \in Callers : SwapLoad(c)
  \/ \E c \in Callers : SwapStore(c)

EngineSpec == EngineSpecInit /\ [][EngineNext]_vars

\* AlignChunkToTile applied to every pair of shapes and element size.
AlignInit ==
  /\ IOInit /\ LruCacheInit(MaxBudget) /\ pool_create(MaxPages, MaxPageSize)
  /\ EngineInit
  /\ al_tile \in Shapes(MaxTile)
  /\ al_align \in Shapes(MaxTile)
  /\ al_elem \in ElementBytes
  /\ al_out = NotCalled
  /\ WaitIdle
  /\ RegIdle

frameAlign ==
  <<ioVars, callVars, ioGhost, cacheVars, cacheGhost, allPool, allEngine, waitVars, regVars>>

AlignNext == CallAlign /\ UNCHANGED frameAlign

AlignSpec == AlignInit /\ [][AlignNext]_vars

\* The registry: create, scan, look tiles up, destroy.
frameRegistry ==
  <<ioVars, callVars, ioGhost, cacheVars, cacheGhost, allPool, allEngine,
    allPure, waitVars>>

RegistryNext ==
  \/ \E g \in GlobalDims, t \in TargetBytes :
       registry_create(g, t) /\ UNCHANGED frameRegistry
  \/ \E i, k \in 0..MaxGlobal, j \in 0..2 :
       GetTile(i, j, k) /\ UNCHANGED frameRegistry
  \/ \E ok \in BOOLEAN, chunks \in ChunkReports :
       registry_scan_file(ok, chunks) /\ UNCHANGED frameRegistry
  \/ registry_destroy /\ UNCHANGED frameRegistry

RegistrySpec == Init /\ [][RegistryNext]_vars

\* ================================================================== claims
IsPrefix(a, b) == Len(a) <= Len(b) /\ \A i \in 1..Len(a) : a[i] = b[i]

KeysOf(q) == [i \in 1..Len(q) |-> q[i].key]

InStop(c) == cpc[c] \in {"stop_notify", "stop_joinable", "stop_join"}

\* Number of requests dequeued and not yet pushed on the ready queue.
InFlight == IF wpc \in {"fetch", "push"} THEN 1 ELSE 0

\* C1: requests reach the fetch callback in enqueue order, and the keys
\* delivered by PopReady are, in order, a prefix of the enqueued keys.
C1_FifoDelivery ==
  /\ IsPrefix(fetchLog, enqLog)
  /\ IsPrefix(KeysOf(delivered), KeysOf(enqLog))

C1_Witness ==
  /\ Len(delivered) = 2
  /\ delivered[1].key # delivered[2].key

\* C2: once stop is issued, the worker leaves its loop and every Stop call
\* in progress returns.
C2_StopTerminates ==
  stop_ ~> (wpc = "exited" /\ \A c \in Callers : ~InStop(c))

\* C3: the stop flag goes from false to true once and never back, the worker
\* is joined once, a Stop call that finds the flag set returns at once
\* without changing the pipeline, and once the flipping call has returned
\* the pipeline is terminal: worker ended and joined.
C3_StopIdempotent ==
  /\ [](flips <= 1 /\ joins <= 1)
  /\ [][stop_ => stop_']_vars
  /\ [][(stopCalls' # stopCalls /\ stop_) => UNCHANGED <<ioVars, cpc>>]_vars
  /\ []((stop_ /\ \A c \in Callers : ~InStop(c)) =>
          (joins = 1 /\ ~joinable /\ wpc = "exited"))

C3_Witness ==
  /\ stopCalls >= 2
  /\ joins = 1
  /\ dtor = "done"

\* C4: every entry on the ready queue was pushed after its request was
\* enqueued, dequeued and its callback invocation had returned.
C4_ReadyAfterFetch ==
  /\ IsPrefix(KeysOf(readyLog), doneLog)
  /\ IsPrefix(doneLog, KeysOf(fetchLog))
  /\ IsPrefix(fetchLog, enqLog)
  /\ delivered \o ready_ = readyLog

C4_Witness ==
  /\ Len(ready_) = 2
  /\ wpc = "waiting"

\* C5: no request is lost. Every enqueued request is in the request queue,
\* in flight, or has produced its ready entry; the i-th fetch and the i-th
\* ready entry belong to the i-th enqueued request; and unless the pipeline
\* is stopped the i-th enqueued request leads to the i-th ready entry.
C5_NoDrop ==
  /\ [](Len(enqLog) = Len(queue_) + InFlight + Len(readyLog))
  /\ [](Len(fetchLog) = InFlight + Len(readyLog))
  /\ [](IsPrefix(fetchLog, enqLog))
  /\ [](IsPrefix(KeysOf(readyLog), KeysOf(fetchLog)))
  /\ \A i \in 1..MaxEnq :
       (Len(enqLog) >= i) ~>
         (stop_ \/ (Len(readyLog) >= i /\ readyLog[i].key = enqLog[i].key))

C5_Witness ==
  /\ ~stop_
  /\ Len(readyLog) = 2
  /\ readyLog[1].data = <<>>
  /\ readyLog[2].data # <<>>

\* C6: a request that is still in the request queue when the stop flag is
\* set is never passed to the fetch callback.
C6_PendingAtStopCancelled ==
  stop_ => Len(fetchLog) <= deqAtStop

\* C6, second half: a request in flight when the stop flag is set gets its
\* ready entry.
C6_DequeuedRunsToCompletion ==
  \A i \in 1..MaxEnq :
    (stop_ /\ deqAtStop >= i) ~> (Len(readyLog) >= i)

\* C7: the byte count is within budget or exactly one entry is resident.
C7_Budget ==
  current_bytes_ <= max_bytes_ \/ Cardinality(DOMAIN entries_) = 1

C7_Witness ==
  /\ lastOp.op = "Put"
  /\ evicted # <<>>
  /\ Cardinality(DOMAIN entries_) >= 1

\* C8: after Put(k, v) with v larger than the budget, k is the only
\* resident entry and holds v.
C8_SoleEntryRetained ==
  (lastOp.op = "Put" /\ Bytes(lastOp.data) > max_bytes_) =>
    /\ DOMAIN entries_ = {lastOp.key}
    /\ entries_[lastOp.key] = lastOp.data

\* C9: the recency list and the payload table hold the same keys and the
\* recency list holds no key twice.
C9_LruAgreement ==
  /\ Range(lru_) = DOMAIN entries_
  /\ Cardinality(Range(lru_)) = Len(lru_)

C9_Witness ==
  /\ lastOp.op = "Get"
  /\ lastOp.hit
  /\ Len(lru_) >= 2
  /\ lru_[1] = lastOp.key

\* C10: the recency list is the resident keys by last access (Get hit or
\* Put), most recent first; a Put evicts from the least recently accessed
\* key upwards, so every evicted key was accessed less recently than every
\* key evicted after it and than every key left resident.
C10_StrictLru ==
  /\ lru_ = recency
  /\ \A i \in 1..Len(evicted) :
       /\ Len(preEvict) >= i
       /\ evicted[i] = preEvict[Len(preEvict) - i + 1]
  /\ recency = SubSeq(preEvict, 1, Len(preEvict) - Len(evicted))
       \/ lastOp.op # "Put"
  /\ (lastOp.op = "Get" /\ lastOp.hit) => lru_[1] = lastOp.key
  /\ (lastOp.op = "Put" /\ lastOp.key \in DOMAIN entries_) => lru_[1] = lastOp.key

C10_Witness ==
  /\ Len(evicted) = 2
  /\ lru_ # <<>>
  /\ evicted[1] = "k2"
  /\ evicted[2] = "k1"

\* ----------------------------------------------------------- BufferPool
\* The entries of the free stack: free_stack[0 .. top-1].
FreeIndexes == 0..(top - 1)
PageIds == 0..(num_pages - 1)

\* C11: after any sequence of pool_acquire and pool_release calls, release
\* being called with any integer id, no page id occurs twice among the free
\* entries, and every free entry and every acquired id lies in [0, N).
C11_FreeEntriesDistinct ==
  /\ \A i, j \in FreeIndexes : i # j => free_stack[i] # free_stack[j]
  /\ \A i \in FreeIndexes : free_stack[i] \in PageIds
  /\ held \subseteq PageIds
  /\ (poolOp.op = "acquire" /\ poolOp.accepted) => poolOp.id \in PageIds

\* C12: the free count plus the number of pages in use is N, and top stays
\* in [0, N].
C12_Conservation ==
  /\ pool_free_count + Cardinality(held) = num_pages
  /\ top \in 0..num_pages

\* C13: for every interleaving of pool_acquire and pool_release calls made
\* by concurrent threads, each releasing only ids it holds, no page id is
\* held by two threads at the same time.
C13_ExclusiveOwnership ==
  \A t1, t2 \in Callers : t1 # t2 => theld[t1] \cap theld[t2] \cap PageIds = {}

\* C14: the acquires of a pool just created return N-1, N-2, ..., 0 in that
\* order, and an acquire that directly follows an accepted release of k
\* returns page k.
C14_Lifo ==
  /\ [](fresh => \A i \in 1..Len(acq) : acq[i] = num_pages - i)
  /\ [][(poolOp.op = "release" /\ poolOp.accepted /\ poolOp'.op = "acquire")
          => /\ poolOp'.accepted
             /\ poolOp'.id = poolOp.arg
             /\ pool_ret' = PagePtr(poolOp.arg)
             /\ poolOp'.arg => out_id' = poolOp.arg]_vars

C14_Witness ==
  /\ num_pages = MaxPages
  /\ ~fresh
  /\ poolOp.op = "acquire" /\ poolOp.accepted
  /\ poolOp.id = num_pages - 1
  /\ top = 0

\* C15: pool_acquire on a pool with top = 0 returns NULL at once, writes no
\* id, and leaves the free stack and top as they were.
C15_ExhaustedAcquire ==
  [][(poolOp'.op = "acquire" /\ top = 0)
      => /\ pool_ret'.null
         /\ ~poolOp'.accepted
         /\ UNCHANGED <<free_stack, top, out_id>>]_vars

C15_Witness ==
  /\ num_pages = MaxPages
  /\ poolOp.op = "acquire" /\ ~poolOp.accepted
  /\ pool_ret.null
  /\ top = 0
  /\ out_id = 0

\* C16: pool_release with an id outside [0, num_pages), or called when
\* top = num_pages, leaves the free stack, top and pool_free_count as they
\* were.
C16_RejectedRelease ==
  [][(poolOp'.op = "release" /\ (poolOp'.arg \notin PageIds \/ top = num_pages))
      => /\ ~poolOp'.accepted
         /\ UNCHANGED <<free_stack, top>>
         /\ pool_free_count' = pool_free_count]_vars

C16_Witness ==
  /\ num_pages = MaxPages
  /\ poolOp.op = "release" /\ ~poolOp.accepted
  /\ poolOp.arg = num_pages
  /\ top = 1
  /\ Cardinality(held) = 2

\* -------------------------------------------------------- OutcoreEngine
\* The keys of the requests or entries of a sequence.
SeqKeys(q) == {q[i].key : i \in 1..Len(q)}

\* Keys with a request or an entry anywhere in the pipeline or the cache.
KeysSeen ==
  SeqKeys(enqLog) \cup SeqKeys(queue_) \cup SeqKeys(fetchLog) \cup SeqKeys(ready_)
    \cup SeqKeys(readyLog) \cup SeqKeys(delivered) \cup DOMAIN entries_

\* C17: QueuePrefetch on a key registered with is_zero = true returns
\* without enqueueing: the request queue, Pending() and the ready queue are
\* as before and no fetch is started; a key that has only ever been
\* registered as zero has no request, no ready entry and no cache entry, so
\* a consume finds nothing for it.
C17_ZeroTileShortcut ==
  /\ [](KeysSeen \subseteq everNonZero)
  /\ [][\A c \in Callers :
          (epc[c] = "qp_test" /\ epc'[c] = "idle"
             /\ emeta[c].found /\ emeta[c].is_zero)
          => /\ UNCHANGED <<queue_, ready_, enqLog, fetchLog, cpc, wpc>>
             /\ Pending' = Pending
             /\ ~engOp'.ok]_vars

C17_Witness ==
  /\ engOp.op = "QueuePrefetch" /\ ~engOp.ok
  /\ engOp.key \in DOMAIN metadata_
  /\ metadata_[engOp.key].is_zero
  /\ engOp.key \notin everNonZero
  /\ Pending = 0 /\ ready_ = <<>>
  /\ everNonZero # {}

\* C18: right after TryConsume returns true for key k the cache holds k
\* with the consumed payload, for every payload size and cache budget.
C18_ConsumedIsCached ==
  (engOp.op = "TryConsume" /\ engOp.ok)
    => /\ engOp.key \in DOMAIN entries_
       /\ entries_[engOp.key] = engOp.data

\* C18, second half: TryConsume on an empty ready queue returns false and
\* changes neither the cache nor the double buffer.
C18_EmptyConsume ==
  [][(engOp'.op = "TryConsume" /\ ~engOp'.ok /\ engOp' # engOp)
      => UNCHANGED <<cacheVars, write_index_, ready_>>]_vars

\* C19: write_index_ is 0 or 1, the read half is the other half, and once
\* every TryConsume call has returned, n accepted entries have left
\* write_index_ = n mod 2.
C19_WriteIndexParity ==
  /\ write_index_ \in {0, 1}
  /\ ReadBuffer # WriteBuffer
  /\ (\A c \in Callers : epc[c] = "idle") => write_index_ = Len(delivered) % 2

\* The product of the dimensions of a shape.
RECURSIVE TileProduct(_)
TileProduct(shape) ==
  IF Len(shape) = 0 THEN 1
  ELSE shape[Len(shape)] * TileProduct(SubSeq(shape, 1, Len(shape) - 1))

\* C20: every payload the engine's callback produces, and every payload
\* consumed into the cache, has as many elements as the product of the tile
\* shape of the request's descriptor.
C20_PayloadSize ==
  /\ wpc = "push" => Len(data) = TileProduct(request.descriptor.tile_shape)
  /\ Len(readyLog) <= Len(fetchLog)
  /\ \A i \in 1..Len(readyLog) :
       /\ readyLog[i].key = fetchLog[i].key
       /\ Len(readyLog[i].data) = TileProduct(fetchLog[i].descriptor.tile_shape)
  /\ \A k \in DOMAIN entries_ :
       \E i \in 1..Len(readyLog) :
         readyLog[i].key = k /\ entries_[k] = readyLog[i].data

C20_Witness ==
  /\ Len(readyLog) = 2
  /\ \E k \in DOMAIN entries_ : Len(entries_[k]) = MaxDim
  /\ \E i \in 1..2 : Len(readyLog[i].data) = 1


\* C21: for a block registered with a descriptor produced by
\* AlignChunkToTile, once it has been prefetched and consumed the cached
\* payload has as many elements as the product of the descriptor's
\* chunk_shape.
C21_CachedChunkSize ==
  \A k \in DOMAIN entries_ :
    \E i \in 1..Len(delivered) :
      /\ delivered[i].key = k
      /\ entries_[k] = delivered[i].data
      /\ Len(entries_[k]) = TileProduct(fetchLog[i].descriptor.chunk_shape)

\* -------------------------------------------------------- AlignChunkToTile
\* m is the smallest multiple of a that is not less than t.
SmallestMultiple(m, a, t) == m % a = 0 /\ m >= t /\ m - a < t

\* C22: a consumer blocked in wait_ready on an empty ready queue is woken
\* when stop is issued (once the stopping call has made its notification
\* no consumer is still blocked), and a wait_ready begun on a stopped
\* pipeline returns STOPPED.
C22_WaitReadyStops ==
  /\ (stop_ /\ \A s \in Callers : cpc[s] # "stop_notify")
       => \A c \in Callers : cpc[c] # "wait_blocked"
  /\ \A c \in Callers : waitRes[c].atStop => waitRes[c].res = "STOPPED"

\* C23: for shapes of equal rank AlignChunkToTile returns tile_shape
\* unchanged, each chunk_shape[i] the smallest multiple of alignment[i]
\* (1 when it is 0) not less than tile_shape[i], and bytes = product of
\* tile_shape times element_bytes; a rank mismatch yields an error and no
\* descriptor.
C23_AlignChunkToTile ==
  al_out.called =>
    IF Len(al_tile) # Len(al_align)
      THEN ~al_out.ok /\ DOMAIN al_out = {"called", "ok"}
      ELSE /\ al_out.ok
           /\ al_out.descriptor.tile_shape = al_tile
           /\ Len(al_out.descriptor.chunk_shape) = Len(al_tile)
           /\ \A i \in 1..Len(al_tile) :
                SmallestMultiple(al_out.descriptor.chunk_shape[i],
                                 IF al_align[i] = 0 THEN 1 ELSE al_align[i],
                                 al_tile[i])
           /\ al_out.descriptor.bytes = TileProduct(al_tile) * al_elem

C23_Witness ==
  /\ al_out.called /\ al_out.ok
  /\ al_tile = <<MaxTile, 1>>
  /\ al_align = <<MaxTile - 1, 0>>
  /\ al_out.descriptor.chunk_shape = <<2 * (MaxTile - 1), 1>>

\* ----------------------------------------------------------------- IOThread
\* C28: Pending() is the number of requests that have been enqueued and not
\* yet dequeued by the worker; the request whose fetch is in flight and the
\* entries on the ready queue are not counted.
C28_PendingExact == Pending = Len(enqLog) - Len(fetchLog)

\* Two requests were enqueued: one entry is ready, one fetch is in flight.
C28_Witness ==
  /\ wpc = "fetch"
  /\ ready_ # <<>>
  /\ Len(enqLog) = MaxEnq
  /\ Pending = 0

\* C29: while the fetch callback runs the worker does not hold the mutex,
\* so an idle caller's PopReady, and its Enqueue, can take their step
\* without waiting for the fetch to return.
C29_FetchOutsideMutex ==
  wpc = "fetch" =>
    /\ mutex_ = "free"
    /\ \A c \in Callers : (Alive /\ cpc[c] = "idle") =>
         /\ ENABLED PopReady(c)
         /\ Len(enqLog) < MaxEnq => ENABLED Enqueue(c, request)

\* A fetch is in flight while a caller has just appended another request.
C29_Witness ==
  /\ wpc = "fetch"
  /\ mutex_ = "free"
  /\ Len(queue_) = 1
  /\ \E c \in Callers : cpc[c] = "enq_notify"
  /\ \E c \in Callers : cpc[c] = "idle"

\* C31: Enqueue does not test the stop flag: once stop is set an Enqueue
\* still appends its request to the request queue, no request enqueued from
\* then on is passed to the fetch callback or produces a ready entry, and
\* Pending() never decreases.
C31_EnqueueAfterStop ==
  [][stop_ =>
       /\ enqLog' # enqLog => queue_' = Append(queue_, enqLog'[Len(enqLog')])
       /\ Len(fetchLog') <= enqAtStop
       /\ Len(readyLog') <= enqAtStop
       /\ Len(queue_') >= Len(queue_)]_vars

\* C31 without its last clause: a request enqueued after stop was set is
\* appended and stays in the request queue.
C31_LateRequestStays ==
  stop_ =>
    /\ Len(fetchLog) <= enqAtStop
    /\ Len(readyLog) <= enqAtStop
    /\ Len(enqLog) > enqAtStop =>
         /\ Len(queue_) >= Len(enqLog) - enqAtStop
         /\ \A i \in 1..(Len(enqLog) - enqAtStop) :
              queue_[Len(queue_) - i + 1] = enqLog[Len(enqLog) - i + 1]

\* C32: for any interleaving of TryConsume (PopReady) calls from concurrent
\* threads, the entries returned are, position by position, the first
\* entries the worker pushed, the others still being on the ready queue: no
\* more are returned than were pushed and none is returned twice; each
\* consumer that got an entry holds one of the returned ones; and a call
\* that finds the ready queue empty returns EMPTY and changes no state.
C32_DeliveredOnce ==
  /\ [](/\ Len(delivered) <= Len(readyLog)
        /\ \A i \in 1..Len(delivered) : delivered[i] = readyLog[i]
        /\ Len(ready_) = Len(readyLog) - Len(delivered)
        /\ \A i \in 1..Len(ready_) : ready_[i] = readyLog[Len(delivered) + i]
        /\ Cardinality({c \in Callers : epc[c] = "tc_put"}) <= Len(delivered)
        /\ \A c \in Callers : epc[c] = "tc_put" =>
             \E i \in 1..Len(delivered) : delivered[i] = eready[c])
  /\ [][delivered' # delivered =>
         /\ ready_ # <<>>
         /\ delivered' = Append(delivered, ready_[1])
         /\ ready_' = Tail(ready_)]_vars
  /\ [][(engOp' # engOp /\ engOp'.op = "TryConsume" /\ ~engOp'.ok) =>
         /\ ready_ = <<>>
         /\ UNCHANGED <<ioVars, callVars, ioGhost, cacheVars, engineVars,
                        engineLocals>>]_vars

\* Two consumers popped concurrently; each holds its own entry.
C32_Witness ==
  /\ Len(delivered) = 2
  /\ \A c \in Callers : epc[c] = "tc_put"
  /\ ready_ = <<>>

\* C33: QueuePrefetch on a key that was never registered enqueues nothing,
\* invokes no fetch and leaves the request queue, the ready queue, the cache
\* and the metadata registry unchanged; QueuePrefetch on a key whose last
\* registration is non-zero appends exactly one request, carrying the
\* descriptor registered last for that key.
C33_QueuePrefetchFrame ==
  [][\A c \in Callers : (epc[c] = "qp_test" /\ epc'[c] = "idle") =>
       LET key == emeta[c].key IN
       /\ key \notin DOMAIN lastRegistered =>
            /\ ~engOp'.ok
            /\ UNCHANGED <<queue_, ready_, enqLog, fetchLog, cacheVars,
                           metadata_>>
       /\ (key \in DOMAIN lastRegistered /\ ~lastRegistered[key].is_zero) =>
            /\ engOp'.ok
            /\ queue_' = Append(queue_,
                 [key |-> key, descriptor |-> lastRegistered[key].descriptor])
            /\ enqLog' = Append(enqLog,
                 [key |-> key, descriptor |-> lastRegistered[key].descriptor])
            /\ UNCHANGED <<ready_, fetchLog, cacheVars, metadata_>>]_vars

\* A registered key was prefetched, and then a key never registered: one
\* request in all, with the descriptor registered last for its key.
C33_Witness ==
  /\ engOp.op = "QueuePrefetch"
  /\ ~engOp.ok
  /\ engOp.key \notin DOMAIN lastRegistered
  /\ Len(enqLog) = 1
  /\ enqLog[1].key \in DOMAIN lastRegistered
  /\ enqLog[1].descriptor = lastRegistered[enqLog[1].key].descriptor
  /\ enqLog[1].descriptor.tile_shape # <<1>>

\* C30: when a call of Stop has returned (more calls were made than are
\* still in progress), whether it flipped the flag or ran concurrently with
\* the call that did, the worker thread has exited, so that no fetch and no
\* push to the ready queue follows the return.
C30_StopReturnsAfterExit ==
  stopCalls > Cardinality({c \in Callers : InStop(c)}) => wpc = "exited"

\* ----------------------------------------------------------------- LruCache
\* The sum of payload length * sizeof(float) over the entries with keys in S.
RECURSIVE ResidentBytes(_)
ResidentBytes(S) ==
  IF S = {} THEN 0
  ELSE LET k == CHOOSE x \in S : TRUE
       IN  Len(entries_[k]) * SizeofFloat + ResidentBytes(S \ {k})

\* C27: after any sequence of Put (insert or replace) and Get calls and the
\* evictions they cause, CurrentBytes is the sum over the resident entries
\* of element count * sizeof(float); in particular a replacing Put has
\* taken the old payload's bytes out and put the new payload's bytes in.
C27_ExactAccounting == CurrentBytes = ResidentBytes(DOMAIN entries_)

\* A replacing Put with another entry resident.
C27_Witness ==
  /\ lastOp.op = "Put"
  /\ lastOp.hit
  /\ lastOp.key \in DOMAIN entries_
  /\ Len(entries_[lastOp.key]) = 1
  /\ Cardinality(DOMAIN entries_) = 2
  /\ CurrentBytes = 2 * SizeofFloat

\* ----------------------------------------------------------- TensorRegistry
\* C24: for a rank-3 registry, after creation and after a scan,
\* registry_get_tile(i, j, k) with every component inside the grid returns
\* the slot at the row-major index, whose stored coordinates are (i, j, k)
\* and whose phys_offset is coords[d] * chunk_dims[d] on every axis; a
\* component at or beyond grid_dims yields NULL.
C24_RegistryBijection ==
  regOp.op = "get_tile" =>
    LET i == regOp.i
        j == regOp.j
        k == regOp.k
        g == reg.grid_dims
    IN  IF i < g[1] /\ j < g[2] /\ k < g[3]
          THEN /\ regOp.ret = (i * g[2] + j) * g[3] + k
               /\ regOp.ret \in 0..(reg.total_tiles - 1)
               /\ reg.tiles[regOp.ret + 1].global_coords = <<i, j, k>>
               /\ \A d \in 1..Rank :
                    reg.tiles[regOp.ret + 1].phys_offset[d]
                      = <<i, j, k>>[d] * reg.chunk_dims[d]
          ELSE regOp.ret = NullTile

C24_Witness ==
  /\ regOp.op = "get_tile"
  /\ regOp.i = 1 /\ regOp.j = 0 /\ regOp.k = 1
  /\ regOp.ret > 0
  /\ reg.chunk_dims[1] = MaxGlobal - 1
  /\ reg.grid_dims[1] # reg.grid_dims[2]
  /\ \E idx \in 1..reg.total_tiles : reg.tiles[idx].status = "ON_DISK"

\* C25: after registry_create with every global extent at least 1 and any
\* target chunk size, on each axis 1 <= chunk_dims <= global_dims and
\* grid_dims is the ceiling of global_dims / chunk_dims, and total_tiles is
\* the product of grid_dims, which is the number of slots.
C25_GridCovering ==
  reg # NoRegistry =>
    /\ \A d \in 1..Rank :
         /\ 1 <= reg.chunk_dims[d]
         /\ reg.chunk_dims[d] <= reg.global_dims[d]
         /\ reg.grid_dims[d] * reg.chunk_dims[d] >= reg.global_dims[d]
         /\ (reg.grid_dims[d] - 1) * reg.chunk_dims[d] < reg.global_dims[d]
    /\ reg.total_tiles = TileProduct(reg.grid_dims)
    /\ Len(reg.tiles) = reg.total_tiles

C25_Witness ==
  /\ regOp.op = "create"
  /\ reg.global_dims = <<MaxGlobal, 1, MaxGlobal>>
  /\ reg.chunk_dims = <<MaxGlobal - 1, 1, MaxGlobal - 1>>
  /\ reg.grid_dims = <<2, 1, 2>>
  /\ reg.total_tiles = 4

\* C26: a successful registry_scan_file of a new registry marks ON_DISK
\* exactly the tiles whose coordinates are offset[d] / chunk_dims[d] for a
\* reported chunk inside the grid and leaves every other tile absent; it
\* returns the number of reported chunks inside the grid; a reported offset
\* outside the grid changes no tile and the chunks after it are processed.
C26_ScanMarksReported ==
  (regOp.op = "scan" /\ regOp.ret # 0 - 1) =>
    LET chunks == regOp.chunks
        At(n) == [d \in 1..Rank |-> chunks[n][d] \div reg.chunk_dims[d]]
        hits == {n \in 1..Len(chunks) :
                   /\ chunks[n] # InfoFailure
                   /\ \A d \in 1..Rank : At(n)[d] < reg.grid_dims[d]}
    IN  /\ regOp.ret = Cardinality(hits)
        /\ \A idx \in 1..reg.total_tiles :
             reg.tiles[idx].status =
               IF \E n \in hits : reg.tiles[idx].global_coords = At(n)
                 THEN "ON_DISK" ELSE "NULL"

C26_Witness ==
  /\ regOp.op = "scan"
  /\ regOp.chunks = <<<<0, 0, MaxGlobal>>, <<1, 1, 1>>>>
  /\ regOp.ret = 1
  /\ reg.chunk_dims = <<MaxGlobal - 1, MaxGlobal - 1, MaxGlobal - 1>>
  /\ reg.total_tiles > 1
  /\ reg.tiles[1].status = "ON_DISK"

====
